---- MODULE Spec2Model ----
(***************************************************************************)
(* The SQLite-backed project/task store of the todo application            *)
(* (package sqlite, models.ValidTaskStatuses) as a state machine.          *)
(*                                                                         *)
(* Text values (names, titles, descriptions) are sequences of one-letter   *)
(* strings so that strings.TrimSpace is computed, not assumed.  An         *)
(* optional request field is a set holding zero or one value.              *)
(***************************************************************************)
EXTENDS Integers, Sequences, FiniteSets, TLC

VARIABLES
    projects,      \* the projects table: id -> row
    tasks,         \* the tasks table: id -> row
    seqProjects,   \* AUTOINCREMENT of projects: the largest id ever given
    seqTasks,      \* AUTOINCREMENT of tasks
    last,          \* the store call that returned last, and its outcome
    procs,         \* the calls in flight, one per request goroutine
    highWater,     \* history: per column, the largest position ever assigned
    clock,         \* CURRENT_TIMESTAMP, in whole seconds
    createdAt      \* the created_at column of the projects table: id -> second

vars ==
    <<projects, tasks, seqProjects, seqTasks, last, procs, highWater, clock, createdAt>>

(***************************************************************************)
(* Bounds of the model.                                                    *)
(***************************************************************************)
MaxProjectId == 2
MaxTaskId == 3
MaxPosition == 2
MaxFieldTasks == 2
MaxRaceTasks == 2
NumProcs == 2
MaxClock == 1

(***************************************************************************)
(* models.ValidTaskStatuses and the inputs the environment supplies.       *)
(***************************************************************************)
ValidTaskStatuses == {"todo", "in_progress", "done"}

StatusInputs == ValidTaskStatuses \cup {"bogus", ""}

SP == " "

TitleInputs == { <<>>, <<SP>>, <<SP, "a">>, <<"b">> }

DescriptionInputs == { <<>>, <<"d", SP>> }

NameInputs == { <<SP>>, <<"p", SP>>, <<"q">> }

ColorInputs == { "#ffffff" }

ProjectIds == 1..MaxProjectId

TaskIds == 1..MaxTaskId

(***************************************************************************)
(* strings.TrimSpace: drop leading and trailing white space.               *)
(***************************************************************************)
RECURSIVE TrimLeft(_)
TrimLeft(s) == IF s # <<>> /\ Head(s) = SP THEN TrimLeft(Tail(s)) ELSE s

RECURSIVE TrimRight(_)
TrimRight(s) ==
    IF s # <<>> /\ s[Len(s)] = SP THEN TrimRight(SubSeq(s, 1, Len(s) - 1)) ELSE s

\* Variant of TrimSpace: only leading white space is dropped.
TrimSpaceLeading(s) == TrimLeft(s)

TrimSpace(s) == TrimRight(TrimLeft(s))

(***************************************************************************)
(* Rows.                                                                   *)
(***************************************************************************)
Project(name, color) == [name |-> name, color |-> color]

Task(projectID, title, description, status, position) ==
    [project_id |-> projectID, title |-> title, description |-> description,
     status |-> status, position |-> position]

NoTask == Task(0, <<>>, <<>>, "", 0)

(***************************************************************************)
(* The result of the last store call: which operation, its arguments, and  *)
(* the error it returned ("none" for success).  id is the id the call was  *)
(* given or, for a create, the id it generated (0 when it failed).  The    *)
(* arguments are kept for a call that succeeded.                           *)
(***************************************************************************)
NoCall ==
    [op |-> "none", id |-> 0, pid |-> 0, name |-> <<>>, color |-> "",
     title |-> {}, description |-> {}, status |-> {}, was |-> NoTask, err |-> "none"]

\* A call that failed: the operation, the id it was about, the error.
Failed(op, id, pid, err) == [NoCall EXCEPT !.op = op, !.id = id, !.pid = pid, !.err = err]

\* A call that succeeded, with the arguments it was given.
ProjectCall(op, id, name, color) ==
    [NoCall EXCEPT !.op = op, !.id = id, !.name = name, !.color = color]

\* was: the row an UpdateTask call fetched before it wrote (`current`).
TaskCall(op, id, pid, title, description, status, was) ==
    [NoCall EXCEPT !.op = op, !.id = id, !.pid = pid, !.title = title,
                   !.description = description, !.status = status, !.was = was]

NoRows == [i \in {} |-> 0]

\* A request goroutine: where its store call stands (pc), and the call's
\* local variables (pid is t.ProjectID or current.ProjectID).
Idle ==
    [pc |-> "idle", op |-> "none", id |-> 0, pid |-> 0, title |-> <<>>,
     description |-> <<>>, status |-> "", position |-> 0]

Procs == 1..NumProcs

Init ==
    /\ projects = NoRows
    /\ tasks = NoRows
    /\ seqProjects = 0
    /\ seqTasks = 0
    /\ last = NoCall
    /\ procs = [p \in 1..NumProcs |-> Idle]
    /\ highWater = [c \in (1..MaxProjectId) \X ValidTaskStatuses |-> -1]
    /\ clock = 0
    /\ createdAt = NoRows

(***************************************************************************)
(* randomPaletteColor: any of the seven palette entries.                   *)
(***************************************************************************)
Palette ==
    {"#2563eb", "#7c3aed", "#dc2626", "#059669", "#ea580c", "#d97706", "#0ea5e9"}

randomPaletteColor == Palette

\* Variant of ResolveColor: an empty color is stored as given.
ResolveColorAsGiven(color) == {color}

ResolveColor(color) == IF color = "" THEN randomPaletteColor ELSE {color}

(***************************************************************************)
(* The SQL statements, as functions of the tables.                         *)
(***************************************************************************)
\* SELECT ... FROM tasks WHERE project_id = ? AND status = ?
Partition(ts, projectID, status) ==
    {i \in DOMAIN ts : ts[i].project_id = projectID /\ ts[i].status = status}

SetMax(S) == CHOOSE m \in S : \A n \in S : n <= m

\* Variants of nextPosition: MAX without the + 1, COUNT(*) in place of
\* MAX + 1, and the column filter (AND status = ?) left out.
nextPositionMax(ts, projectID, status) ==
    LET rows == Partition(ts, projectID, status)
    IN  IF rows # {} THEN SetMax({ts[i].position : i \in rows}) ELSE 0

nextPositionCount(ts, projectID, status) ==
    Cardinality(Partition(ts, projectID, status))

nextPositionProject(ts, projectID, status) ==
    LET rows == {i \in DOMAIN ts : ts[i].project_id = projectID}
    IN  IF rows # {} THEN SetMax({ts[i].position : i \in rows}) + 1 ELSE 0

\* Store.nextPosition: SELECT MAX(position); NULL (no row) gives 0.
nextPosition(ts, projectID, status) ==
    LET rows == Partition(ts, projectID, status)
    IN  IF rows # {} THEN SetMax({ts[i].position : i \in rows}) + 1 ELSE 0

\* Variant of NameFree: the projects table has no UNIQUE(name).
NameFreeAlways(ps, id, name) == TRUE

\* UNIQUE(name) of the projects table, for the row `id` being written.
NameFree(ps, id, name) == \A p \in DOMAIN ps \ {id} : ps[p].name # name

\* Variant of InsertProject: the row is written although UNIQUE(name) fails.
InsertProjectAnyway(ps, id, name, color) == ps @@ (id :> Project(name, color))

\* INSERT INTO projects(name, color) VALUES(?, ?): the table after the
\* statement; a statement that fails on UNIQUE(name) writes nothing.
InsertProject(ps, id, name, color) ==
    IF NameFree(ps, 0, name) THEN ps @@ (id :> Project(name, color)) ELSE ps

\* Variant of RowsAffected: a row is reported also when none matched.
RowsAffectedOne(rows, id) == 1

\* res.RowsAffected() of an UPDATE or DELETE ... WHERE id = ?
RowsAffected(rows, id) == IF id \in DOMAIN rows THEN 1 ELSE 0

\* Variant of ForeignKeyHolds: foreign keys are not enforced.
ForeignKeysOff(ps, projectID) == TRUE

\* FOREIGN KEY(project_id) REFERENCES projects(id), with _foreign_keys=ON.
ForeignKeyHolds(ps, projectID) == projectID \in DOMAIN ps

\* Variant of CascadeDelete: the DELETE does not cascade.
CascadeDeleteOff(ts, id) == ts

\* ON DELETE CASCADE: the tasks left once project `id` is deleted.
CascadeDelete(ts, id) ==
    LET keep == {i \in DOMAIN ts : ts[i].project_id # id}
    IN  [i \in keep |-> ts[i]]

\* Variant of UpdateRow: a task that leaves its column takes its gap along,
\* the tasks above it in that column move down by one.
UpdateRowCompact(ts, id, row) ==
    [i \in DOMAIN ts |->
        IF i = id THEN row
        ELSE IF /\ id \in DOMAIN ts
                /\ row.status # ts[id].status
                /\ ts[i].project_id = ts[id].project_id
                /\ ts[i].status = ts[id].status
                /\ ts[i].position > ts[id].position
             THEN [ts[i] EXCEPT !.position = @ - 1]
             ELSE ts[i]]

\* UPDATE tasks SET title = ?, description = ?, status = ?, position = ?
\* WHERE id = ?: the one row with that id is written, if there is one.
UpdateRow(ts, id, row) == IF id \in DOMAIN ts THEN [ts EXCEPT ![id] = row] ELSE ts

\* Variant of DeleteRow: the positions above a deleted task are closed up.
DeleteRowCompact(rows, id) ==
    [i \in DOMAIN rows \ {id} |->
        IF /\ id \in DOMAIN rows
           /\ "position" \in DOMAIN rows[i]
           /\ rows[i].project_id = rows[id].project_id
           /\ rows[i].status = rows[id].status
           /\ rows[i].position > rows[id].position
        THEN [rows[i] EXCEPT !.position = @ - 1]
        ELSE rows[i]]

DeleteRow(rows, id) == [i \in DOMAIN rows \ {id} |-> rows[i]]

\* ORDER BY status: BINARY collation of the three status texts.
StatusRank(status) ==
    CASE status = "done" -> 0
      [] status = "in_progress" -> 1
      [] status = "todo" -> 2
      [] OTHER -> 3

\* Variant of TaskBefore: ORDER BY status, id.
TaskBeforeById(ts, i, j) ==
    \/ StatusRank(ts[i].status) < StatusRank(ts[j].status)
    \/ ts[i].status = ts[j].status /\ i < j

\* ORDER BY status, position, id
TaskBefore(ts, i, j) ==
    \/ StatusRank(ts[i].status) < StatusRank(ts[j].status)
    \/ /\ ts[i].status = ts[j].status
       /\ \/ ts[i].position < ts[j].position
          \/ ts[i].position = ts[j].position /\ i < j

RECURSIVE SortTasks(_, _)
SortTasks(ts, ids) ==
    IF ids = {} THEN <<>>
    ELSE LET first == CHOOSE i \in ids : \A j \in ids \ {i} : TaskBefore(ts, i, j)
         IN  <<first>> \o SortTasks(ts, ids \ {first})

\* Store.ListTasks: the ids of the project's tasks in result order.
ListTasks(ts, projectID) ==
    SortTasks(ts, {i \in DOMAIN ts : ts[i].project_id = projectID})

(***************************************************************************)
(* Store.CreateTask and Store.UpdateTask: how the stored fields are        *)
(* resolved from the request.                                              *)
(***************************************************************************)
\* Variant of CreateStatus: the status is stored as given.
CreateStatusAsGiven(status) == status

\* CreateTask: a status outside ValidTaskStatuses becomes "todo".
CreateStatus(status) == IF status \in ValidTaskStatuses THEN status ELSE "todo"

\* Variant of UpdateTitle: a supplied title always replaces the current one.
UpdateTitleAlways(current, title) ==
    IF title # {} THEN TrimSpace(CHOOSE v \in title : TRUE) ELSE current.title

\* UpdateTask: a supplied title replaces the current one unless it trims to "".
UpdateTitle(current, title) ==
    IF title # {} /\ (\E v \in title : TrimSpace(v) # <<>>)
    THEN TrimSpace(CHOOSE v \in title : TRUE)
    ELSE current.title

\* UpdateTask: a supplied description always replaces the current one.
UpdateDescription(current, description) ==
    IF description # {} THEN TrimSpace(CHOOSE v \in description : TRUE)
    ELSE current.description

\* Variant of UpdateStatus: a supplied status always replaces the current one.
UpdateStatusAny(current, status) ==
    IF status # {} THEN CHOOSE v \in status : TRUE ELSE current.status

\* UpdateTask: a supplied status replaces the current one only when valid.
UpdateStatus(current, status) ==
    IF status # {} /\ status \subseteq ValidTaskStatuses
    THEN CHOOSE v \in status : TRUE
    ELSE current.status

\* Variants of UpdatePosition: never recomputed, always recomputed.
UpdatePositionKeep(ts, current, status) == current.position

UpdatePositionAlways(ts, current, status) ==
    nextPosition(ts, current.project_id, status)

\* UpdateTask: the position is recomputed only when the status changes.
UpdatePosition(ts, current, status) ==
    IF status # current.status
    THEN nextPosition(ts, current.project_id, status)
    ELSE current.position

(***************************************************************************)
(* The store's operations, each call running to completion.                *)
(***************************************************************************)
CreateProject(name, color) ==
    /\ UNCHANGED <<tasks, seqTasks>>
    /\ IF TrimSpace(name) = <<>>
       THEN /\ last' = Failed("CreateProject", 0, 0, "validation")
            /\ UNCHANGED <<projects, seqProjects, createdAt>>
       ELSE \E c \in ResolveColor(color) :
            /\ projects' = InsertProject(projects, seqProjects + 1, TrimSpace(name), c)
            /\ IF ~NameFree(projects, 0, TrimSpace(name))
               THEN /\ last' = Failed("CreateProject", 0, 0, "conflict")
                    /\ UNCHANGED <<seqProjects, createdAt>>
               ELSE /\ seqProjects < MaxProjectId
                    /\ seqProjects' = seqProjects + 1
                    /\ createdAt' = createdAt @@ ((seqProjects + 1) :> clock)
                    /\ last' = ProjectCall("CreateProject", seqProjects + 1, name, color)

UpdateProject(id, name, color) ==
    /\ UNCHANGED <<tasks, seqTasks, seqProjects, createdAt>>
    /\ IF TrimSpace(name) = <<>>
       THEN /\ last' = Failed("UpdateProject", id, 0, "validation")
            /\ UNCHANGED projects
       ELSE IF id \in DOMAIN projects /\ ~NameFree(projects, id, TrimSpace(name))
       THEN /\ last' = Failed("UpdateProject", id, 0, "conflict")
            /\ UNCHANGED projects
       ELSE IF RowsAffected(projects, id) = 0
       THEN /\ last' = Failed("UpdateProject", id, 0, "not_found")
            /\ UNCHANGED projects
       ELSE /\ \E c \in ResolveColor(color) :
                  projects' = [projects EXCEPT ![id] = Project(TrimSpace(name), c)]
            /\ last' = ProjectCall("UpdateProject", id, name, color)

DeleteProject(id) ==
    /\ UNCHANGED <<seqTasks, seqProjects>>
    /\ projects' = DeleteRow(projects, id)
    /\ createdAt' = [i \in DOMAIN createdAt \ {id} |-> createdAt[i]]
    /\ tasks' = IF id \in DOMAIN projects THEN CascadeDelete(tasks, id) ELSE tasks
    /\ IF RowsAffected(projects, id) = 0
       THEN last' = Failed("DeleteProject", id, 0, "not_found")
       ELSE last' = ProjectCall("DeleteProject", id, <<>>, "")

CreateTask(projectID, title, description, status) ==
    /\ UNCHANGED <<projects, seqProjects, createdAt>>
    /\ IF TrimSpace(title) = <<>>
       THEN /\ last' = Failed("CreateTask", 0, 0, "validation")
            /\ UNCHANGED <<tasks, seqTasks>>
       ELSE LET st == CreateStatus(status)
                pos == nextPosition(tasks, projectID, st)
            IN  IF ~ForeignKeyHolds(projects, projectID)
                THEN /\ last' = Failed("CreateTask", 0, projectID, "foreign_key")
                     /\ UNCHANGED <<tasks, seqTasks>>
                ELSE /\ seqTasks < MaxTaskId
                     /\ pos <= MaxPosition
                     /\ tasks' = tasks @@ ((seqTasks + 1) :>
                            Task(projectID, TrimSpace(title), TrimSpace(description), st, pos))
                     /\ seqTasks' = seqTasks + 1
                     /\ last' = TaskCall("CreateTask", seqTasks + 1, projectID, {title},
                                         {description}, {status}, NoTask)

UpdateTask(id, title, description, status) ==
    /\ UNCHANGED <<projects, seqProjects, seqTasks, createdAt>>
    /\ IF id \notin DOMAIN tasks
       THEN /\ last' = Failed("UpdateTask", id, 0, "not_found")
            /\ UNCHANGED tasks
       ELSE LET current == tasks[id]
                st == UpdateStatus(current, status)
                pos == UpdatePosition(tasks, current, st)
            IN  /\ pos <= MaxPosition
                /\ tasks' = UpdateRow(tasks, id,
                       Task(current.project_id, UpdateTitle(current, title),
                            UpdateDescription(current, description), st, pos))
                /\ last' = TaskCall("UpdateTask", id, current.project_id, title,
                                    description, status, current)

DeleteTask(id) ==
    /\ UNCHANGED <<projects, seqProjects, seqTasks, createdAt>>
    /\ tasks' = DeleteRow(tasks, id)
    /\ IF RowsAffected(tasks, id) = 0
       THEN last' = Failed("DeleteTask", id, 0, "not_found")
       ELSE last' = TaskCall("DeleteTask", id, 0, {}, {}, {}, NoTask)

GetTask(id) ==
    /\ UNCHANGED <<projects, tasks, seqProjects, seqTasks, createdAt>>
    /\ last' = IF id \notin DOMAIN tasks
               THEN Failed("GetTask", id, 0, "not_found")
               ELSE TaskCall("GetTask", id, tasks[id].project_id, {}, {}, {}, tasks[id])

(***************************************************************************)
(* The task board, one call at a time: projects are created and deleted,   *)
(* tasks are created, moved between columns and deleted.                   *)
(***************************************************************************)
Optional(S) == {{}} \cup {{v} : v \in S}

BoardNames == { <<"p", SP>>, <<"q">> }

BoardTitles == { <<SP>>, <<SP, "a">> }

BoardDescriptions == { <<>> }

BoardStatusChanges == Optional(ValidTaskStatuses \cup {"bogus"})

Next ==
    \/ \E name \in BoardNames, color \in ColorInputs :
          CreateProject(name, color) /\ UNCHANGED <<procs, highWater, clock>>
    \/ \E id \in ProjectIds :
          DeleteProject(id) /\ UNCHANGED <<procs, highWater, clock>>
    \/ \E projectID \in ProjectIds, title \in BoardTitles,
          description \in BoardDescriptions, status \in StatusInputs :
          CreateTask(projectID, title, description, status) /\ UNCHANGED <<procs, highWater, clock>>
    \/ \E id \in TaskIds, status \in BoardStatusChanges :
          UpdateTask(id, {}, {}, status) /\ UNCHANGED <<procs, highWater, clock>>
    \/ \E id \in TaskIds :
          DeleteTask(id) /\ UNCHANGED <<procs, highWater, clock>>

Spec == Init /\ [][Next]_vars

(***************************************************************************)
(* Properties of the task board.                                           *)
(***************************************************************************)
SameColumn(i, j) ==
    /\ tasks[i].project_id = tasks[j].project_id
    /\ tasks[i].status = tasks[j].status

\* The other tasks of column (projectID, status), and the append position
\* after them: 0 for an empty column, else one more than their maximum.
Others(id, projectID, status) ==
    {i \in DOMAIN tasks \ {id} :
        tasks[i].project_id = projectID /\ tasks[i].status = status}

IsAppendPosition(pos, others) ==
    /\ others = {} => pos = 0
    /\ others # {} =>
          \E i \in others : /\ pos = tasks[i].position + 1
                            /\ \A j \in others : tasks[j].position <= tasks[i].position

Succeeded(op) == last.op = op /\ last.err = "none"

Moved == Succeeded("UpdateTask") /\ tasks[last.id].status # last.was.status

\* C1: no two distinct tasks of one (project_id, status) column have the
\* same position, whatever sequence of serialized create_project, create_task,
\* update_task, delete_task and delete_project calls has run.
PositionUniqueness ==
    \A i, j \in DOMAIN tasks :
        (i # j /\ SameColumn(i, j)) => tasks[i].position # tasks[j].position

\* A task has just been moved into a column that holds another task, above a
\* gap a deleted or moved task left.
WitnessPositionUniqueness ==
    /\ Moved
    /\ tasks[last.id].position = 2
    /\ Cardinality(Others(last.id, tasks[last.id].project_id, tasks[last.id].status)) = 1

\* C3: a create_task that succeeded stored the task in its project, in the
\* column of the resolved status, at position 0 if no other task is in that
\* column and at 1 + their maximum position otherwise; it fails on the
\* foreign key only for a project that does not exist.
CreateTaskAppends ==
    /\ Succeeded("CreateTask") =>
          LET st == IF last.status \subseteq ValidTaskStatuses
                    THEN CHOOSE v \in last.status : TRUE ELSE "todo"
          IN  /\ last.id \in DOMAIN tasks
              /\ tasks[last.id].project_id = last.pid
              /\ tasks[last.id].status = st
              /\ IsAppendPosition(tasks[last.id].position, Others(last.id, last.pid, st))
    /\ (last.op = "CreateTask" /\ last.err = "foreign_key") => last.pid \notin DOMAIN projects

\* Tasks 1 and 3 are the first and second task of one column, at positions 0
\* and 1, and task 2 was created into another column between them.
WitnessCreateTaskAppends ==
    /\ Succeeded("CreateTask")
    /\ last.id = 3
    /\ {1, 2, 3} \subseteq DOMAIN tasks
    /\ SameColumn(1, 3)
    /\ ~SameColumn(1, 2)
    /\ tasks[1].position = 0
    /\ tasks[3].position = 1

\* C4: an update_task that changed the status from A to a different valid
\* status B left the task in B at 1 + the maximum position of the other tasks
\* of (project_id, B), or at 0 if there are none.
MoveAppends ==
    \A B \in ValidTaskStatuses :
        (Succeeded("UpdateTask") /\ last.status = {B} /\ last.was.status # B) =>
            /\ tasks[last.id].status = B
            /\ tasks[last.id].project_id = last.was.project_id
            /\ IsAppendPosition(tasks[last.id].position,
                                Others(last.id, last.was.project_id, B))

\* A task that stood at position 0 was moved behind a task at position 1.
WitnessMoveAppends ==
    /\ Moved
    /\ last.was.position = 0
    /\ tasks[last.id].position = 2

\* C5: an update_task that supplied no status, or the status the task
\* already had, left the task's position and status as they were.
SameStatusKeepsPosition ==
    (Succeeded("UpdateTask") /\ (last.status = {} \/ last.status = {last.was.status})) =>
        /\ tasks[last.id].position = last.was.position
        /\ tasks[last.id].status = last.was.status

\* The status was supplied, equal to the current one, for a task that is
\* not the last of its column.
WitnessSameStatusKeepsPosition ==
    /\ Succeeded("UpdateTask")
    /\ last.status = {last.was.status}
    /\ \E j \in DOMAIN tasks \ {last.id} :
          SameColumn(j, last.id) /\ tasks[j].position > tasks[last.id].position

\* C6: every stored task's status is one of todo, in_progress, done; a
\* create_task given a status outside that set stored "todo".
StatusAlwaysValid ==
    /\ \A i \in DOMAIN tasks : tasks[i].status \in {"todo", "in_progress", "done"}
    /\ (Succeeded("CreateTask") /\ last.status \cap {"todo", "in_progress", "done"} = {}) =>
          tasks[last.id].status = "todo"

\* A create_task given "bogus" succeeded while a task created with the empty
\* status is on the board.
WitnessStatusAlwaysValid ==
    /\ Succeeded("CreateTask")
    /\ last.status = {"bogus"}
    /\ tasks[last.id].status = "todo"
    /\ Cardinality(DOMAIN tasks) > 1

\* C8: delete_project(P) of an existing project succeeds, leaves no task of
\* P, so that list_tasks(P) is empty, and leaves every other project and
\* every task of another project as it was.
DeleteProjectCascades ==
    [][\A P \in ProjectIds :
          (DeleteProject(P) /\ P \in DOMAIN projects) =>
              /\ last'.err = "none"
              /\ \A i \in DOMAIN tasks' : tasks'[i].project_id # P
              /\ ListTasks(tasks', P) = <<>>
              /\ DOMAIN tasks' = {i \in DOMAIN tasks : tasks[i].project_id # P}
              /\ \A i \in DOMAIN tasks' : tasks'[i] = tasks[i]
              /\ DOMAIN projects' = DOMAIN projects \ {P}
              /\ \A q \in DOMAIN projects' : projects'[q] = projects[q]]_vars

\* A project was deleted; tasks were created, fewer are left, and a task of
\* the other project is still there.
WitnessDeleteProjectCascades ==
    /\ Succeeded("DeleteProject")
    /\ seqTasks = 3
    /\ Cardinality(DOMAIN tasks) = 1
    /\ DOMAIN projects # {}

\* C21: an update_task that succeeded wrote only the row of its task: the
\* title, description, status and position of every other task, in the
\* column the task left, the column it entered and every other project, are
\* as before (a move neither compacts the one nor shifts the other), no
\* task appears or disappears, and no project row changes.
UpdateTaskLeavesOthers ==
    [][(last'.op = "UpdateTask" /\ last'.err = "none") =>
          /\ DOMAIN tasks' = DOMAIN tasks
          /\ \A i \in DOMAIN tasks \ {last'.id} :
                /\ tasks'[i].title = tasks[i].title
                /\ tasks'[i].description = tasks[i].description
                /\ tasks'[i].status = tasks[i].status
                /\ tasks'[i].position = tasks[i].position
                /\ tasks'[i].project_id = tasks[i].project_id
          /\ projects' = projects]_vars

\* A task was moved out of a column in which a task stands above the place
\* it left, into a column that holds another task.
WitnessUpdateTaskLeavesOthers ==
    /\ Moved
    /\ \E i \in DOMAIN tasks \ {last.id} :
          /\ tasks[i].project_id = last.was.project_id
          /\ tasks[i].status = last.was.status
          /\ tasks[i].position > last.was.position
    /\ Others(last.id, tasks[last.id].project_id, tasks[last.id].status) # {}

\* C18: right after a create_task into, or an update_task move into, column
\* (project_id, S), list_tasks(project_id) returns that task as the last of
\* the tasks with status S.
ListedLastInColumn ==
    (Succeeded("CreateTask") \/ Moved) =>
        LET listed == ListTasks(tasks, tasks[last.id].project_id)
            S == tasks[last.id].status
        IN  \E k \in 1..Len(listed) :
                /\ listed[k] = last.id
                /\ \A n \in 1..Len(listed) : tasks[listed[n]].status = S => n <= k

\* Task 1 was moved into a column that holds a task created after it, and
\* a third task of the project is listed in another column.
WitnessListedLastInColumn ==
    /\ Moved
    /\ last.id = 1
    /\ Len(ListTasks(tasks, tasks[1].project_id)) = 3
    /\ \E j \in DOMAIN tasks \ {1} : SameColumn(1, j)
    /\ \E j \in DOMAIN tasks \ {1} :
          tasks[j].project_id = tasks[1].project_id /\ ~SameColumn(1, j)

\* C15: delete_task(id) of an existing task removes exactly that task and
\* leaves every other task as it was, its id, project_id, status and
\* position included: positions are not compacted and gaps stay open.
DeleteTaskLeavesOthers ==
    [][\A id \in TaskIds :
          (DeleteTask(id) /\ id \in DOMAIN tasks) =>
              /\ last'.err = "none"
              /\ DOMAIN tasks' = DOMAIN tasks \ {id}
              /\ \A i \in DOMAIN tasks' :
                    /\ tasks'[i].project_id = tasks[i].project_id
                    /\ tasks'[i].status = tasks[i].status
                    /\ tasks'[i].position = tasks[i].position
              /\ projects' = projects]_vars

\* Task 1 was deleted; task 2 is alone in its column at position 1, the
\* position it was given behind task 1.
WitnessDeleteTaskLeavesOthers ==
    /\ Succeeded("DeleteTask")
    /\ last.id = 1
    /\ seqTasks = 2
    /\ DOMAIN tasks = {2}
    /\ tasks[2].position = 1

(***************************************************************************)
(* The fields of a task: one project, a few tasks, and update_task called  *)
(* with every combination of supplied and absent title, description and    *)
(* status.                                                                 *)
(***************************************************************************)
FieldStatusChanges == Optional({"done", "bogus", ""})

NextFields ==
    \/ CreateProject(<<"p", SP>>, "#ffffff") /\ UNCHANGED <<procs, highWater, clock>>
    \/ \E description \in DescriptionInputs :
          /\ seqTasks < MaxFieldTasks
          /\ CreateTask(1, <<SP, "a">>, description, "")
          /\ UNCHANGED <<procs, highWater, clock>>
    \/ \E id \in 1..MaxFieldTasks, title \in Optional(TitleInputs),
          description \in Optional(DescriptionInputs), status \in FieldStatusChanges :
          UpdateTask(id, title, description, status) /\ UNCHANGED <<procs, highWater, clock>>
    \/ \E id \in 1..MaxFieldTasks :
          DeleteTask(id) /\ UNCHANGED <<procs, highWater, clock>>

SpecFields == Init /\ [][NextFields]_vars

\* C7: an update_task given a status outside the valid set returned no error
\* (update_task fails only for a task that does not exist), kept the task's
\* status and position, and applied the title and description of the call.
InvalidStatusIgnored ==
    /\ (Succeeded("UpdateTask") /\ last.status # {} /\ last.status \cap ValidTaskStatuses = {}) =>
          /\ tasks[last.id].status = last.was.status
          /\ tasks[last.id].position = last.was.position
          /\ \A v \in last.title :
                tasks[last.id].title = IF TrimSpace(v) = <<>> THEN last.was.title ELSE TrimSpace(v)
          /\ last.title = {} => tasks[last.id].title = last.was.title
          /\ \A v \in last.description : tasks[last.id].description = TrimSpace(v)
          /\ last.description = {} => tasks[last.id].description = last.was.description
    /\ (last.op = "UpdateTask" /\ last.err # "none") =>
          last.err = "not_found" /\ last.id \notin DOMAIN tasks

\* The second task of the column, titled "a" with no description, was
\* updated with status "bogus", title "b" and description "d ".
WitnessInvalidStatusIgnored ==
    /\ Succeeded("UpdateTask")
    /\ last.status = {"bogus"}
    /\ last.title = {<<"b">>}
    /\ last.description = {<<"d", SP>>}
    /\ last.was = Task(1, <<"a">>, <<>>, "todo", 1)
    /\ tasks[last.id] = Task(1, <<"b">>, <<"d">>, "todo", 1)

\* C16: update_task replaces the stored title only when a title is supplied
\* and is non-empty after trimming (an absent, empty or white-space title
\* leaves it unchanged and is no error); it replaces the stored description
\* by the trimmed supplied value whenever one is supplied, the empty string
\* included; the task's id and project_id do not change.
UpdateTaskFieldRules ==
    /\ Succeeded("UpdateTask") =>
          /\ last.id \in DOMAIN tasks
          /\ tasks[last.id].project_id = last.was.project_id
          /\ tasks[last.id].title =
                IF \E v \in last.title : TrimLeft(TrimRight(v)) # <<>>
                THEN TrimLeft(TrimRight(CHOOSE v \in last.title : TRUE))
                ELSE last.was.title
          /\ tasks[last.id].description =
                IF last.description # {}
                THEN TrimLeft(TrimRight(CHOOSE v \in last.description : TRUE))
                ELSE last.was.description
    /\ (last.op = "UpdateTask" /\ last.err # "none") => last.id \notin DOMAIN tasks

\* A task titled "a" and described "d" was updated with a white-space
\* title and the empty description: the title stays, the description is
\* cleared.
WitnessUpdateTaskFieldRules ==
    /\ Succeeded("UpdateTask")
    /\ last.title = {<<SP>>}
    /\ last.description = {<<>>}
    /\ last.was.title = <<"a">>
    /\ last.was.description = <<"d">>
    /\ tasks[last.id].title = <<"a">>
    /\ tasks[last.id].description = <<>>

(***************************************************************************)
(* The task board with its history: highWater records, per column, the     *)
(* largest position a create_task or a move has ever assigned there.       *)
(***************************************************************************)
\* The call that just returned assigned a position: a create, or an update
\* that changed the status.
Assigned == Succeeded("CreateTask") \/ Moved

AssignedColumn == <<tasks[last.id].project_id, tasks[last.id].status>>

Larger(a, b) == IF a > b THEN a ELSE b

Track ==
    highWater' =
        IF Assigned'
        THEN [highWater EXCEPT ![AssignedColumn'] = Larger(@, tasks'[last'.id].position)]
        ELSE highWater

HistoryStatuses == {"todo", "done"}

NextHistory ==
    \/ \E name \in BoardNames, color \in ColorInputs :
          CreateProject(name, color) /\ UNCHANGED <<procs, clock>> /\ Track
    \/ \E projectID \in ProjectIds, status \in HistoryStatuses :
          CreateTask(projectID, <<SP, "a">>, <<>>, status) /\ UNCHANGED <<procs, clock>> /\ Track
    \/ \E id \in TaskIds, status \in HistoryStatuses :
          UpdateTask(id, {}, {}, {status}) /\ UNCHANGED <<procs, clock>> /\ Track
    \/ \E id \in TaskIds :
          DeleteTask(id) /\ UNCHANGED <<procs, clock>> /\ Track

SpecHistory == Init /\ [][NextHistory]_vars

\* C10 as claimed: each position assigned in a column is strictly greater
\* than every position assigned in that column before, also after the task
\* holding the maximum was deleted or moved away.
AssignedAboveHistory ==
    [][Assigned' => tasks'[last'.id].position > highWater[AssignedColumn']]_vars

\* C10: each position assigned in a column is strictly greater than the
\* position of every task that is in the column when it is assigned.
AssignedAboveCurrent ==
    Assigned =>
        \A j \in Others(last.id, tasks[last.id].project_id, tasks[last.id].status) :
            tasks[j].position < tasks[last.id].position

\* A position was assigned in a column below a position assigned there
\* before: the tasks that held the larger positions were deleted or moved.
WitnessAssignedAboveCurrent ==
    /\ Assigned
    /\ tasks[last.id].position < highWater[AssignedColumn]
    /\ Others(last.id, tasks[last.id].project_id, tasks[last.id].status) # {}

(***************************************************************************)
(* The store under concurrent requests.  The HTTP server runs every        *)
(* request in its own goroutine; the connection pool of size 1 runs one    *)
(* SQL statement at a time and is free again between two statements of a   *)
(* call.  A step is one statement of one call, with the Go code around it. *)
(***************************************************************************)
Return(p, result) ==
    /\ last' = result
    /\ procs' = [procs EXCEPT ![p] = Idle]

\* CreateTask up to and including nextPosition's SELECT MAX(position).
CreateTaskSelect(p, projectID, title, description, status) ==
    /\ procs[p].pc = "idle"
    /\ UNCHANGED <<projects, seqProjects, tasks, seqTasks, highWater, clock, createdAt>>
    /\ IF TrimSpace(title) = <<>>
       THEN Return(p, Failed("CreateTask", 0, 0, "validation"))
       ELSE LET st == CreateStatus(status)
                pos == nextPosition(tasks, projectID, st)
            IN  /\ pos <= MaxPosition
                /\ procs' = [procs EXCEPT ![p] =
                       [Idle EXCEPT !.pc = "insert", !.op = "CreateTask", !.pid = projectID,
                                    !.title = TrimSpace(title),
                                    !.description = TrimSpace(description),
                                    !.status = st, !.position = pos]]
                /\ UNCHANGED last

\* CreateTask: INSERT INTO tasks(...).
CreateTaskInsert(p) ==
    /\ procs[p].pc = "insert"
    /\ UNCHANGED <<projects, seqProjects, highWater, clock, createdAt>>
    /\ IF ~ForeignKeyHolds(projects, procs[p].pid)
       THEN /\ Return(p, Failed("CreateTask", 0, procs[p].pid, "foreign_key"))
            /\ UNCHANGED <<tasks, seqTasks>>
       ELSE /\ seqTasks < MaxRaceTasks
            /\ tasks' = tasks @@ ((seqTasks + 1) :>
                   Task(procs[p].pid, procs[p].title, procs[p].description,
                        procs[p].status, procs[p].position))
            /\ seqTasks' = seqTasks + 1
            /\ procs' = [procs EXCEPT ![p].pc = "get", ![p].id = seqTasks + 1]
            /\ UNCHANGED last

\* UpdateTask up to and including the GetTask of the current row.
UpdateTaskFetch(p, id, title, description, status) ==
    /\ procs[p].pc = "idle"
    /\ UNCHANGED <<projects, seqProjects, tasks, seqTasks, highWater, clock, createdAt>>
    /\ IF id \notin DOMAIN tasks
       THEN Return(p, Failed("UpdateTask", id, 0, "not_found"))
       ELSE LET current == tasks[id]
                st == UpdateStatus(current, status)
            IN  /\ procs' = [procs EXCEPT ![p] =
                       [Idle EXCEPT !.pc = IF st # current.status THEN "select" ELSE "update",
                                    !.op = "UpdateTask", !.id = id,
                                    !.pid = current.project_id,
                                    !.title = UpdateTitle(current, title),
                                    !.description = UpdateDescription(current, description),
                                    !.status = st, !.position = current.position]]
                /\ UNCHANGED last

\* UpdateTask: nextPosition's SELECT MAX(position) for the new column.
UpdateTaskSelect(p) ==
    /\ procs[p].pc = "select"
    /\ UNCHANGED <<projects, seqProjects, tasks, seqTasks, highWater, clock, createdAt, last>>
    /\ LET pos == nextPosition(tasks, procs[p].pid, procs[p].status)
       IN  /\ pos <= MaxPosition
           /\ procs' = [procs EXCEPT ![p].pc = "update", ![p].position = pos]

\* UpdateTask: UPDATE tasks SET ... WHERE id = ?; no row is no error.
UpdateTaskWrite(p) ==
    /\ procs[p].pc = "update"
    /\ UNCHANGED <<projects, seqProjects, seqTasks, highWater, clock, createdAt, last>>
    /\ tasks' = IF procs[p].id \in DOMAIN tasks
                THEN [tasks EXCEPT ![procs[p].id] =
                         Task(@.project_id, procs[p].title, procs[p].description,
                              procs[p].status, procs[p].position)]
                ELSE tasks
    /\ procs' = [procs EXCEPT ![p].pc = "get"]

\* The closing GetTask of CreateTask and UpdateTask, and the return.
TaskGet(p) ==
    /\ procs[p].pc = "get"
    /\ UNCHANGED <<projects, seqProjects, tasks, seqTasks, highWater, clock, createdAt>>
    /\ IF procs[p].id \notin DOMAIN tasks
       THEN Return(p, Failed(procs[p].op, procs[p].id, procs[p].pid, "not_found"))
       ELSE Return(p, TaskCall(procs[p].op, procs[p].id, procs[p].pid, {}, {}, {}, NoTask))

\* CreateProject: INSERT INTO projects(...).
CreateProjectInsert(p, name, color) ==
    /\ procs[p].pc = "idle"
    /\ UNCHANGED <<tasks, seqTasks, highWater, clock>>
    /\ IF TrimSpace(name) = <<>>
       THEN /\ Return(p, Failed("CreateProject", 0, 0, "validation"))
            /\ UNCHANGED <<projects, seqProjects, createdAt>>
       ELSE IF ~NameFree(projects, 0, TrimSpace(name))
       THEN /\ Return(p, Failed("CreateProject", 0, 0, "conflict"))
            /\ UNCHANGED <<projects, seqProjects, createdAt>>
       ELSE /\ seqProjects < MaxProjectId
            /\ \E c \in ResolveColor(color) :
                  projects' = projects @@ ((seqProjects + 1) :> Project(TrimSpace(name), c))
            /\ seqProjects' = seqProjects + 1
            /\ createdAt' = createdAt @@ ((seqProjects + 1) :> clock)
            /\ procs' = [procs EXCEPT ![p] =
                   [Idle EXCEPT !.pc = "get_project", !.op = "CreateProject",
                                !.id = seqProjects + 1]]
            /\ UNCHANGED last

\* CreateProject: the closing GetProject, and the return.
ProjectGet(p) ==
    /\ procs[p].pc = "get_project"
    /\ UNCHANGED <<projects, seqProjects, tasks, seqTasks, highWater, clock, createdAt>>
    /\ IF procs[p].id \notin DOMAIN projects
       THEN Return(p, Failed(procs[p].op, procs[p].id, 0, "not_found"))
       ELSE Return(p, ProjectCall(procs[p].op, procs[p].id, projects[procs[p].id].name,
                                  projects[procs[p].id].color))

\* DeleteProject and DeleteTask are one statement each.
DeleteProjectCall(p, id) ==
    /\ procs[p].pc = "idle"
    /\ DeleteProject(id)
    /\ UNCHANGED <<procs, highWater, clock>>

DeleteTaskCall(p, id) ==
    /\ procs[p].pc = "idle"
    /\ DeleteTask(id)
    /\ UNCHANGED <<procs, highWater, clock>>

NextConcurrent ==
    \E p \in Procs :
        \/ CreateProjectInsert(p, <<"p", SP>>, "#ffffff")
        \/ ProjectGet(p)
        \/ \E id \in ProjectIds : DeleteProjectCall(p, id)
        \/ \E projectID \in ProjectIds, status \in {"", "done"} :
              CreateTaskSelect(p, projectID, <<SP, "a">>, <<>>, status)
        \/ CreateTaskInsert(p)
        \/ \E id \in 1..MaxRaceTasks, status \in {"todo", "done"} :
              UpdateTaskFetch(p, id, {}, {}, {status})
        \/ UpdateTaskSelect(p)
        \/ UpdateTaskWrite(p)
        \/ TaskGet(p)
        \/ \E id \in 1..MaxRaceTasks : DeleteTaskCall(p, id)

SpecConcurrent == Init /\ [][NextConcurrent]_vars

\* C2: concurrently running create_task and update_task calls, their
\* statements executed one at a time on the single connection, never leave
\* two tasks of one (project_id, status) column with the same position.
ConcurrentPositionUniqueness ==
    \A projectID \in ProjectIds, status \in ValidTaskStatuses :
        LET column == Partition(tasks, projectID, status)
        IN  Cardinality({tasks[i].position : i \in column}) = Cardinality(column)

\* C9: every task's project_id is the id of an existing project, also while
\* delete_project runs between the statements of a create_task or an
\* update_task; the INSERT of a create_task whose project does not exist
\* fails and stores no task.
ReferentialIntegrity ==
    [][/\ \A i \in DOMAIN tasks' : tasks'[i].project_id \in DOMAIN projects'
       /\ \A p \in Procs :
             (CreateTaskInsert(p) /\ procs[p].pid \notin DOMAIN projects) =>
                 /\ tasks' = tasks
                 /\ last'.op = "CreateTask"
                 /\ last'.err = "foreign_key"]_vars

\* A create_task failed on the foreign key for a project that had been
\* created and was deleted, while an update_task is between its statements.
WitnessReferentialIntegrity ==
    /\ last.op = "CreateTask"
    /\ last.err = "foreign_key"
    /\ last.pid \in (1..seqProjects) \ DOMAIN projects
    /\ \E p \in Procs : procs[p].op = "UpdateTask" /\ procs[p].id \notin DOMAIN tasks

(***************************************************************************)
(* Concurrent patches of one task: the request goroutine TitleCaller sends *)
(* update_task calls that supply only a title, the others send calls that  *)
(* supply a description, a status, or both.                                *)
(***************************************************************************)
TitleCaller == 1

NextPatch ==
    \/ \E p \in Procs : CreateProjectInsert(p, <<"p", SP>>, "#ffffff")
    \/ \E p \in Procs : ProjectGet(p)
    \/ \E p \in Procs : CreateTaskSelect(p, 1, <<SP, "a">>, <<>>, "")
    \/ \E p \in Procs : CreateTaskInsert(p)
    \/ \E id \in 1..MaxRaceTasks :
          UpdateTaskFetch(TitleCaller, id, {<<"b">>}, {}, {})
    \/ \E p \in Procs \ {TitleCaller}, id \in 1..MaxRaceTasks,
          description \in Optional({<<"d", SP>>}), status \in Optional({"todo", "done"}) :
          /\ description # {} \/ status # {}
          /\ UpdateTaskFetch(p, id, {}, description, status)
    \/ \E p \in Procs : UpdateTaskSelect(p)
    \/ \E p \in Procs : UpdateTaskWrite(p)
    \/ \E p \in Procs : TaskGet(p)

SpecPatch == Init /\ [][NextPatch]_vars

\* C19: when an update_task call that supplies only a title has fetched the
\* row, another update_task on the same task then commits a status and
\* position or a description, and the first call then writes, the first
\* call's write leaves the stored status, position and description as the
\* second call committed them.
TitleOnlyWriteKeepsOthers ==
    [][(UpdateTaskWrite(TitleCaller) /\ procs[TitleCaller].id \in DOMAIN tasks) =>
          LET id == procs[TitleCaller].id
          IN  /\ tasks'[id].status = tasks[id].status
              /\ tasks'[id].position = tasks[id].position
              /\ tasks'[id].description = tasks[id].description]_vars

(***************************************************************************)
(* The whole store, one call at a time, with the inputs that make a call   *)
(* fail: names and titles that trim to nothing, names in use, ids of rows  *)
(* that do not exist.                                                      *)
(***************************************************************************)
NextStore ==
    \/ \E name \in NameInputs, color \in ColorInputs :
          CreateProject(name, color) /\ UNCHANGED <<procs, highWater, clock>>
    \/ \E id \in ProjectIds, name \in NameInputs, color \in ColorInputs :
          UpdateProject(id, name, color) /\ UNCHANGED <<procs, highWater, clock>>
    \/ \E id \in ProjectIds :
          DeleteProject(id) /\ UNCHANGED <<procs, highWater, clock>>
    \/ \E projectID \in ProjectIds, title \in BoardTitles :
          /\ seqTasks < MaxFieldTasks
          /\ CreateTask(projectID, title, <<>>, "")
          /\ UNCHANGED <<procs, highWater, clock>>
    \/ \E id \in 1..MaxFieldTasks :
          GetTask(id) /\ UNCHANGED <<procs, highWater, clock>>
    \/ \E id \in 1..MaxFieldTasks, title \in Optional({<<"b">>}), status \in Optional({"done"}) :
          UpdateTask(id, title, {}, status) /\ UNCHANGED <<procs, highWater, clock>>
    \/ \E id \in 1..MaxFieldTasks :
          DeleteTask(id) /\ UNCHANGED <<procs, highWater, clock>>

SpecStore == Init /\ [][NextStore]_vars

\* C11: a create_project, create_task, update_project or update_task call
\* that returns an error (empty trimmed name or title, duplicate name,
\* missing project, missing id) leaves the project rows and the task rows
\* exactly as they were before the call.
NoPartialPersistence ==
    [][(/\ last'.op \in {"CreateProject", "CreateTask", "UpdateProject", "UpdateTask"}
        /\ last'.err \in {"validation", "conflict", "foreign_key", "not_found"})
           => (projects' = projects /\ tasks' = tasks)]_vars

\* create_project failed on a name in use while a project and a task of it
\* are stored and one more project could be created.
WitnessNoPartialPersistence ==
    /\ last.op = "CreateProject"
    /\ last.err = "conflict"
    /\ seqProjects < MaxProjectId
    /\ DOMAIN projects # {}
    /\ DOMAIN tasks # {}

\* C14: get_task, update_task and delete_task on an id that matches no
\* task, and delete_project and (with a name that does not trim to empty)
\* update_project on an id that matches no project, fail with the not-found
\* error and change no row.
NotFoundChangesNothing ==
    [][/\ (last'.op \in {"GetTask", "UpdateTask", "DeleteTask"} /\ last'.id \notin DOMAIN tasks) =>
             (last'.err = "not_found" /\ projects' = projects /\ tasks' = tasks)
       /\ (last'.op = "DeleteProject" /\ last'.id \notin DOMAIN projects) =>
             (last'.err = "not_found" /\ projects' = projects /\ tasks' = tasks)
       /\ (/\ last'.op = "UpdateProject"
           /\ last'.id \notin DOMAIN projects
           /\ last'.err # "validation") =>
             (last'.err = "not_found" /\ projects' = projects /\ tasks' = tasks)]_vars

\* update_project was called for a project that had been deleted, while
\* another project and a task are stored.
WitnessNotFoundChangesNothing ==
    /\ last.op = "UpdateProject"
    /\ last.err = "not_found"
    /\ last.id \in (1..seqProjects) \ DOMAIN projects
    /\ DOMAIN projects # {}
    /\ DOMAIN tasks # {}

(***************************************************************************)
(* The projects alone: created, renamed, recolored and deleted, while the  *)
(* clock that stamps created_at advances.  Names come with and without     *)
(* surrounding white space, colors are given or left empty.                *)
(***************************************************************************)
ProjectNames == NameInputs \cup { <<SP, "p">> }

ProjectColors == ColorInputs \cup { "" }

\* A second of wall-clock time passes.
Tick ==
    /\ clock < MaxClock
    /\ clock' = clock + 1
    /\ UNCHANGED <<projects, tasks, seqProjects, seqTasks, last, procs, highWater, createdAt>>

NextProjects ==
    \/ \E name \in ProjectNames, color \in ProjectColors :
          CreateProject(name, color) /\ UNCHANGED <<procs, highWater, clock>>
    \/ \E id \in ProjectIds, name \in ProjectNames, color \in ProjectColors :
          UpdateProject(id, name, color) /\ UNCHANGED <<procs, highWater, clock>>
    \/ \E id \in ProjectIds :
          DeleteProject(id) /\ UNCHANGED <<procs, highWater, clock>>
    \/ Tick

SpecProjects == Init /\ [][NextProjects]_vars

\* C12: create_project with a name whose trimmed value is the name of an
\* existing project fails with the conflict error and adds no project,
\* whatever color is supplied.
DuplicateNameConflicts ==
    [][\A name \in ProjectNames, color \in ProjectColors :
          (/\ CreateProject(name, color)
           /\ \E q \in DOMAIN projects : projects[q].name = TrimSpace(name)) =>
              /\ last'.op = "CreateProject"
              /\ last'.err = "conflict"
              /\ projects' = projects
              /\ seqProjects' = seqProjects]_vars

\* create_project failed on a name in use while one project is stored and
\* another could still be created.
WitnessDuplicateNameConflicts ==
    /\ last.op = "CreateProject"
    /\ last.err = "conflict"
    /\ Cardinality(DOMAIN projects) = 1
    /\ seqProjects < MaxProjectId

\* C13: whatever create_project, update_project and delete_project calls
\* have run, every project's name is non-empty, is its own trimmed form (no
\* white space at either end), and differs from every other project's name.
ProjectNamesValid ==
    \A p \in DOMAIN projects :
        /\ projects[p].name # <<>>
        /\ projects[p].name = TrimSpace(projects[p].name)
        /\ Head(projects[p].name) # SP
        /\ projects[p].name[Len(projects[p].name)] # SP
        /\ \A q \in DOMAIN projects \ {p} : projects[q].name # projects[p].name

\* update_project renamed a project, given a name with white space around
\* it, while another project is stored.
WitnessProjectNamesValid ==
    /\ Succeeded("UpdateProject")
    /\ last.name # TrimSpace(last.name)
    /\ projects[last.id].name = TrimSpace(last.name)
    /\ Cardinality(DOMAIN projects) = 2

\* C17: create_project(name, "") with a name that is non-empty after trimming
\* and not in use persists and returns a project whose color is one of the
\* 7 palette values; update_project with an empty color stores a palette
\* value too; a non-empty color is stored as given.
PaletteColor ==
    [][/\ \A name \in ProjectNames :
             (/\ CreateProject(name, "")
              /\ TrimLeft(TrimRight(name)) # <<>>
              /\ \A q \in DOMAIN projects : projects[q].name # TrimLeft(TrimRight(name))) =>
                 /\ last'.err = "none"
                 /\ DOMAIN projects' = DOMAIN projects \cup {last'.id}
                 /\ last'.id \notin DOMAIN projects
                 /\ projects'[last'.id].color \in
                       {"#2563eb", "#7c3aed", "#dc2626", "#059669", "#ea580c", "#d97706", "#0ea5e9"}
       /\ (last'.op \in {"CreateProject", "UpdateProject"} /\ last'.err = "none") =>
             /\ last'.color = "" =>
                   projects'[last'.id].color \in
                       {"#2563eb", "#7c3aed", "#dc2626", "#059669", "#ea580c", "#d97706", "#0ea5e9"}
             /\ last'.color # "" => projects'[last'.id].color = last'.color]_vars

\* update_project with an empty color gave a palette color to a project
\* that had been created with a color of its own, while the other project
\* holds a palette color from its creation.
WitnessPaletteColor ==
    /\ Succeeded("UpdateProject")
    /\ last.color = ""
    /\ projects[last.id].color = "#0ea5e9"
    /\ \E q \in DOMAIN projects \ {last.id} : projects[q].color = "#dc2626"

\* SELECT ... FROM projects ORDER BY created_at ASC: the orders in which
\* Store.ListProjects can return the rows.  created_at is the only sort key,
\* so rows with the same created_at come in an order SQL leaves open.
ListProjects(ps, created) ==
    {l \in [1..Cardinality(DOMAIN ps) -> DOMAIN ps] :
        /\ \A i, j \in DOMAIN l : i # j => l[i] # l[j]
        /\ \A i, j \in DOMAIN l : i < j => created[l[i]] <= created[l[j]]}

====
